---- MODULE Spec2Model ----
(***************************************************************************)
(* godivert: pooled packet buffers, lazily parsed packets, and the capture *)
(* session (WinDivertHandle) with its receive loop and worker goroutines.  *)
(*                                                                         *)
(* Memory is modelled as a heap of byte arrays; a Go slice is a record     *)
(* [arr, off, len] into one array (its capacity is the array size minus    *)
(* off).  Slice indices are 0-based as in Go.  An array stores its         *)
(* non-zero bytes by position: make([]byte, n) zero-initialises, so every  *)
(* byte not stored is 0.                                                   *)
(***************************************************************************)
EXTENDS Integers, Sequences, FiniteSets, TLC

VARIABLES
    heap,       \* Seq of arrays [size, data]: every []byte backing array allocated so far
    pool,       \* bufferPool: the slices currently stored in the sync.Pool
    wdOpen,     \* WinDivertHandle.open
    hValid,     \* the driver still knows wd.handle (WinDivertClose not yet called)
    closeCalls, \* number of winDivertClose.Call invocations
    nRecv,      \* number of packets the driver has delivered
    loopPc,     \* position of the recvLoop goroutine
    loopBuf,    \* Recv's local packetBuffer
    loopPkt,    \* recvLoop's local packet
    loopErr,    \* recvLoop's local err: the last Recv call returned an error
    chan,       \* packetChan: the buffered channel's queue
    chanClosed, \* packetChan has been closed
    packetsErr, \* last result of Packets(): "none", "nil" or "closed"
    wPc,        \* position of each worker goroutine
    wPkt,       \* the packet each worker holds
    wRet,       \* result of each worker's last Send: [n, err]
    wLog,       \* driver calls made by each worker's current/last Send
    wCalcErr,   \* HelperCalcChecksum returned an error in the current/last Send
    wVal,       \* each worker's last accessor call and what it returned: [op, val, err]
    held,       \* the buffers a direct user of GetBuffer/ReturnBuffer holds
    lastRet     \* per array: whether and how it was last given to ReturnBuffer

vars == <<heap, pool, wdOpen, hValid, closeCalls, nRecv,
          loopPc, loopBuf, loopPkt, loopErr, chan, chanClosed, packetsErr,
          wPc, wPkt, wRet, wLog, wCalcErr, wVal, held, lastRet>>

\* ------------------------------------------------------------------ bounds
NumWorkers == 2      \* worker goroutines started by the caller
MaxRecv == 3         \* packets the driver delivers in one run
MaxClose == 2        \* calls of Close in one run
MaxBufs == 2         \* buffers a direct user of the pool makes it allocate
MaxArrays == 6       \* byte arrays in a run of the TCP header's caller
MaxHdrArrays == 5    \* byte arrays in a run of the caller of the header view alone
ChanCap == 2         \* capacity of packetChan in the model (PacketChanCapacity scaled down)

Workers == 1..NumWorkers

\* --------------------------------------------------------------- constants
PacketBufferSize == 65575
ICMPv4 == 1
TCP == 6
UDP == 17
ICMPv6 == 58
IPv6HeaderLen == 40
UDPHeaderLen == 8
ICMPv4HeaderLen == 8
ICMPv6HeaderLen == 8

Max(a, b) == IF a >= b THEN a ELSE b
Min(a, b) == IF a <= b THEN a ELSE b

\* -------------------------------------------------------------------- heap
NilSlice == [arr |-> 0, off |-> 0, len |-> 0]

\* The stored form of an array holding the byte sequence t from its start: the
\* non-zero bytes by position (1-based); every other byte of the array is 0.
Stored(t) == [k \in {j \in 1..Len(t) : t[j] # 0} |-> t[k]]

\* make([]byte, n): a fresh zeroed array appended to the heap.
Alloc(h, n) == Append(h, [size |-> n, data |-> Stored(<<>>)])

SliceCap(h, s) == IF s.arr = 0 THEN 0 ELSE h[s.arr].size - s.off

\* s[i]
ByteAt(h, s, i) ==
    LET d == h[s.arr].data
        j == s.off + i + 1
    IN  IF j \in DOMAIN d THEN d[j] ELSE 0

\* the bytes s[0..len-1] as a sequence
Bytes(h, s) == [i \in 1..s.len |-> ByteAt(h, s, i - 1)]

\* copy(s[i:], bytes) / s[i+k] = bytes[k]: store a byte sequence at s[i...]
CopyIn(h, s, i, bytes) ==
    LET d == h[s.arr].data
        base == s.off + i
        rng == (base + 1)..(base + Len(bytes))
        dom == (DOMAIN d \ rng) \cup {k \in rng : bytes[k - base] # 0}
    IN  [h EXCEPT ![s.arr].data = [k \in dom |-> IF k \in rng THEN bytes[k - base] ELSE d[k]]]

\* s[i] = 0 for lo <= i < hi
ZeroRange(h, s, lo, hi) ==
    LET d == h[s.arr].data
        dom == {k \in DOMAIN d : ~(s.off + lo < k /\ k <= s.off + hi)}
    IN  [h EXCEPT ![s.arr].data = [k \in dom |-> d[k]]]

\* s[i] = b
StoreAt(h, s, i, b) == CopyIn(h, s, i, <<b>>)

\* s[lo:hi]
Sub(s, lo, hi) == [arr |-> s.arr, off |-> s.off + lo, len |-> hi - lo]

\* s[lo:]
SubFrom(s, lo) == Sub(s, lo, s.len)

\* The non-zero bytes of slice s by position in s (1-based).
SliceData(h, s) ==
    LET d == h[s.arr].data
    IN  [k \in {j - s.off : j \in {x \in DOMAIN d : s.off < x /\ x <= s.off + s.len}}
           |-> d[k + s.off]]

\* copy(dst[i:], src): min(len(dst) - i, len(src)) bytes are copied; the source
\* is read before the destination is written (the slices may overlap).
CopySlice(h, dst, i, src) ==
    LET n == Min(dst.len - i, src.len)
        d == h[dst.arr].data
        base == dst.off + i
        rng == (base + 1)..(base + n)
        from == SliceData(h, Sub(src, 0, n))
        dom == (DOMAIN d \ rng) \cup {k + base : k \in DOMAIN from}
    IN  [h EXCEPT ![dst.arr].data = [k \in dom |-> IF k \in rng THEN from[k - base] ELSE d[k]]]

\* append(s, src...): [heap, slice].  Within cap(s) the bytes are written after
\* s in its own array; otherwise a new array of capacity newCap is allocated
\* and receives the bytes of s followed by those of src.
GoAppend(h, s, src, newCap) ==
    LET need == s.len + src.len
        grown == [s EXCEPT !.len = need]
        a == SliceData(h, s)
        b == SliceData(h, src)
        dom == DOMAIN a \cup {k + s.len : k \in DOMAIN b}
    IN  IF need <= SliceCap(h, s)
        THEN [heap |-> CopySlice(h, grown, s.len, src), slice |-> grown]
        ELSE [heap  |-> Append(h, [size |-> Max(newCap, need),
                                   data |-> [k \in dom |-> IF k <= s.len THEN a[k]
                                                           ELSE b[k - s.len]]]),
              slice |-> [arr |-> Len(h) + 1, off |-> 0, len |-> need]]

\* The capacities the runtime may give the array that append allocates.
GrowCaps(need) == {need, 2 * need}

\* ------------------------------------------------------------- buffer pool
\* bufferPool.New: make([]byte, PacketBufferSize)
PoolNew(h) ==
    [heap |-> Alloc(h, PacketBufferSize),
     buf  |-> [arr |-> Len(h) + 1, off |-> 0, len |-> PacketBufferSize]]

RemoveAt(s, i) == SubSeq(s, 1, i - 1) \o SubSeq(s, i + 1, Len(s))

\* bufferPool.Put(buffer).  A sync.Pool keeps no order: the stored slices are
\* listed by array so that one pool content has one representation.
PoolPut(pl, buffer) ==
    LET n == Cardinality({i \in 1..Len(pl) : pl[i].arr <= buffer.arr})
    IN  SubSeq(pl, 1, n) \o <<buffer>> \o SubSeq(pl, n + 1, Len(pl))

\* GetBuffer with a Get that leaves the slice it hands out in the pool.
GetBuffer_keeps(h, pl) ==
    {[heap |-> h, pool |-> pl, buf |-> pl[i]] : i \in 1..Len(pl)}
    \cup {[heap |-> PoolNew(h).heap, pool |-> pl, buf |-> PoolNew(h).buf]}

\* GetBuffer: bufferPool.Get() hands out any stored slice and removes it from
\* the pool, or (a sync.Pool may treat itself as empty) calls New.
\* The set of possible outcomes [heap, pool, buf].
GetBuffer(h, pl) ==
    {[heap |-> h, pool |-> RemoveAt(pl, i), buf |-> pl[i]] : i \in 1..Len(pl)}
    \cup {[heap |-> PoolNew(h).heap, pool |-> pl, buf |-> PoolNew(h).buf]}

\* The zeroing loop with the bound `i < length-1`.
ZeroPrefix_short(h, buffer, length) == ZeroRange(h, buffer, 0, Min(length, buffer.len) - 1)

\* the loop `for i := 0; i < length; i++ { buffer[i] = 0 }`; it writes
\* buffer[0..length-1], and indexing stops it at len(buffer).
ZeroPrefix(h, buffer, length) == ZeroRange(h, buffer, 0, Min(length, buffer.len))

\* ReturnBuffer(buffer, length): [heap, pool, panic] afterwards.  A length past
\* len(buffer) panics (index out of range) before the Put.
ReturnBuffer(h, pl, buffer, length) ==
    IF buffer.len = PacketBufferSize
    THEN [heap  |-> ZeroPrefix(h, buffer, length),
          pool  |-> IF length > buffer.len THEN pl ELSE PoolPut(pl, buffer),
          panic |-> length > buffer.len]
    ELSE [heap |-> h, pool |-> pl, panic |-> FALSE]

\* ------------------------------------------------------------ header views
\* A header view: kind "nil" is the nil interface value.
NoHdr == [kind |-> "nil", Raw |-> NilSlice, Modified |-> FALSE, Payload |-> NilSlice]

\* header.NewIPv4Header(raw): the view covers the IPv4 header bytes.
NewIPv4Header(h, raw) ==
    [kind |-> "IPv4", Raw |-> Sub(raw, 0, ((ByteAt(h, raw, 0) % 16) * 4) % 256),
     Modified |-> FALSE, Payload |-> NilSlice]

\* header.NewIPv6Header(raw): the view covers the fixed 40-byte header.
NewIPv6Header(h, raw) ==
    [kind |-> "IPv6", Raw |-> Sub(raw, 0, IPv6HeaderLen),
     Modified |-> FALSE, Payload |-> NilSlice]

\* header.NewTCPHeader(raw)
NewTCPHeader(h, raw) ==
    LET hdrLen == ((ByteAt(h, raw, 12) \div 16) * 4) % 256
    IN  [kind |-> "TCP", Raw |-> raw, Modified |-> FALSE, Payload |-> SubFrom(raw, hdrLen)]

\* header.NewUDPHeader / NewICMPv4Header / NewICMPv6Header: fixed-length views.
NewFixedHeader(kind, raw) ==
    [kind |-> kind, Raw |-> raw, Modified |-> FALSE, Payload |-> NilSlice]

\* NeedNewChecksum: true if the header has been modified.
NeedNewChecksum(hdr) == hdr.Modified

\* TCPHeader.SetSrcPort(port): [hdr, heap]
TCPSetSrcPort(h, hdr, port) ==
    [hdr  |-> [hdr EXCEPT !.Modified = TRUE],
     heap |-> CopyIn(h, hdr.Raw, 0, <<(port \div 256) % 256, port % 256>>)]

\* TCPHeader.SetDstPort(port): [hdr, heap]
TCPSetDstPort(h, hdr, port) ==
    [hdr  |-> [hdr EXCEPT !.Modified = TRUE],
     heap |-> CopyIn(h, hdr.Raw, 2, <<(port \div 256) % 256, port % 256>>)]

\* TCPHeader.SrcPort(): binary.BigEndian.Uint16(h.Raw[0:2])
TCPSrcPort(h, hdr) == ByteAt(h, hdr.Raw, 0) * 256 + ByteAt(h, hdr.Raw, 1)

\* TCPHeader.DstPort(): binary.BigEndian.Uint16(h.Raw[2:4])
TCPDstPort(h, hdr) == ByteAt(h, hdr.Raw, 2) * 256 + ByteAt(h, hdr.Raw, 3)

\* TCPHeader.SeqNum(): binary.BigEndian.Uint32(h.Raw[4:8])
TCPSeqNum(h, hdr) ==
    ((ByteAt(h, hdr.Raw, 4) * 256 + ByteAt(h, hdr.Raw, 5)) * 256
     + ByteAt(h, hdr.Raw, 6)) * 256 + ByteAt(h, hdr.Raw, 7)

\* TCPHeader.AckNum(): binary.BigEndian.Uint32(h.Raw[8:12])
TCPAckNum(h, hdr) ==
    ((ByteAt(h, hdr.Raw, 8) * 256 + ByteAt(h, hdr.Raw, 9)) * 256
     + ByteAt(h, hdr.Raw, 10)) * 256 + ByteAt(h, hdr.Raw, 11)

\* binary.BigEndian.PutUint32
BigEndian32(v) ==
    <<(v \div 16777216) % 256, (v \div 65536) % 256, (v \div 256) % 256, v % 256>>

\* TCPHeader.SetSeqNum(seqNum): [hdr, heap]
TCPSetSeqNum(h, hdr, seqNum) ==
    [hdr  |-> [hdr EXCEPT !.Modified = TRUE],
     heap |-> CopyIn(h, hdr.Raw, 4, BigEndian32(seqNum))]

\* TCPHeader.SetAckNum(ackNum): [hdr, heap]
TCPSetAckNum(h, hdr, ackNum) ==
    [hdr  |-> [hdr EXCEPT !.Modified = TRUE],
     heap |-> CopyIn(h, hdr.Raw, 8, BigEndian32(ackNum))]

\* SetPayload that leaves the Modified flag as it is.
TCPSetPayload_quiet(h, hdr, val, newCap) ==
    LET hdrLen == ((ByteAt(h, hdr.Raw, 12) \div 16) * 4) % 256
        r == GoAppend(h, Sub(hdr.Raw, 0, hdrLen), val, newCap)
    IN  IF val.len = hdr.Payload.len
        THEN [hdr  |-> [hdr EXCEPT !.Payload = val],
              heap |-> CopySlice(h, hdr.Raw, hdrLen, val)]
        ELSE [hdr  |-> [hdr EXCEPT !.Raw = r.slice, !.Payload = val],
              heap |-> r.heap]

\* TCPHeader.SetPayload(val): [hdr, heap]
TCPSetPayload(h, hdr, val, newCap) ==
    LET hdrLen == ((ByteAt(h, hdr.Raw, 12) \div 16) * 4) % 256
        r == GoAppend(h, Sub(hdr.Raw, 0, hdrLen), val, newCap)
    IN  IF val.len = hdr.Payload.len
        THEN [hdr  |-> [hdr EXCEPT !.Payload = val, !.Modified = TRUE],
              heap |-> CopySlice(h, hdr.Raw, hdrLen, val)]
        ELSE [hdr  |-> [hdr EXCEPT !.Raw = r.slice, !.Payload = val, !.Modified = TRUE],
              heap |-> r.heap]

\* IPv4Header.SetTotalLen(v): bytes 2..3 of the header view, Modified raised.
IPv4SetTotalLen(h, hdr, v) ==
    [hdr  |-> [hdr EXCEPT !.Modified = TRUE],
     heap |-> CopyIn(h, hdr.Raw, 2, <<(v \div 256) % 256, v % 256>>)]

\* IPv4Header.SetSrcIP(ip): bytes 12..15, Modified raised.  [hdr, heap]
IPv4SetSrcIP(h, hdr, ip) ==
    [hdr  |-> [hdr EXCEPT !.Modified = TRUE],
     heap |-> CopyIn(h, hdr.Raw, 12, ip)]

\* IPv4Header.SetDstIP(ip): bytes 16..19, Modified raised.  [hdr, heap]
IPv4SetDstIP(h, hdr, ip) ==
    [hdr  |-> [hdr EXCEPT !.Modified = TRUE],
     heap |-> CopyIn(h, hdr.Raw, 16, ip)]

\* IPv4Header.SrcIP() / DstIP()
IPv4SrcIP(h, hdr) == Bytes(h, Sub(hdr.Raw, 12, 16))
IPv4DstIP(h, hdr) == Bytes(h, Sub(hdr.Raw, 16, 20))

\* ------------------------------------------------------------------ packet
\* &Packet{Raw: packetBuffer[:packetLen], PacketLen: packetLen, buffer: packetBuffer}
\* (Addr carries driver metadata only and is left out).
NewPacket(raw, packetLen, buffer) ==
    [Raw |-> raw, PacketLen |-> packetLen, Buffer |-> buffer,
     parsed |-> FALSE, ipVersion |-> 0, hdrLen |-> 0, nextHeaderType |-> 0,
     IpHdr |-> NoHdr, NextHeader |-> NoHdr]

NoPacket == NewPacket(NilSlice, 0, NilSlice)

\* Packet.getBuffer(): the pooled buffer saved by Recv
getBuffer(p) == p.Buffer

\* Packet.ParseHeaders()
ParseHeaders(h, p) ==
    LET ver == ByteAt(h, p.Raw, 0) \div 16
        hl  == IF ver = 4 THEN ((ByteAt(h, p.Raw, 0) % 16) * 4) % 256 ELSE 40
        nh  == IF ver = 4 THEN ByteAt(h, p.Raw, 9) ELSE ByteAt(h, p.Raw, 6)
        ip  == IF ver = 4 THEN NewIPv4Header(h, p.Raw) ELSE NewIPv6Header(h, p.Raw)
        nx  == CASE nh = ICMPv4 -> NewFixedHeader("ICMPv4", Sub(p.Raw, hl, hl + ICMPv4HeaderLen))
                 [] nh = TCP    -> NewTCPHeader(h, SubFrom(p.Raw, hl))
                 [] nh = UDP    -> NewFixedHeader("UDP", Sub(p.Raw, hl, hl + UDPHeaderLen))
                 [] nh = ICMPv6 -> NewFixedHeader("ICMPv6", Sub(p.Raw, hl, hl + ICMPv6HeaderLen))
                 [] OTHER       -> NoHdr
    IN  [p EXCEPT !.ipVersion = ver, !.hdrLen = hl, !.nextHeaderType = nh,
                  !.IpHdr = ip, !.NextHeader = nx, !.parsed = TRUE]

\* Packet.ParseHeaders() panics: an index at or past len(p.Raw), a slice
\* bound past cap(p.Raw) or a low bound past len(p.Raw), or the same in
\* NewTCPHeader on the slice it is handed.
ParsePanics(h, p) ==
    LET n   == p.Raw.len
        ver == ByteAt(h, p.Raw, 0) \div 16
        hl  == IF ver = 4 THEN ((ByteAt(h, p.Raw, 0) % 16) * 4) % 256 ELSE 40
        nh  == IF ver = 4 THEN ByteAt(h, p.Raw, 9) ELSE ByteAt(h, p.Raw, 6)
        fixed == CASE nh = ICMPv4 -> ICMPv4HeaderLen
                   [] nh = UDP    -> UDPHeaderLen
                   [] nh = ICMPv6 -> ICMPv6HeaderLen
                   [] OTHER       -> 0
        tcpHdrLen == ((ByteAt(h, SubFrom(p.Raw, hl), 12) \div 16) * 4) % 256
    IN  \/ n = 0
        \/ (IF ver = 4 THEN 9 ELSE 6) >= n
        \/ nh \in {ICMPv4, UDP, ICMPv6} /\ hl + fixed > SliceCap(h, p.Raw)
        \/ nh = TCP /\ (hl > n \/ 12 >= n - hl \/ tcpHdrLen > n - hl)

\* VerifyParsed without its `if !p.parsed` guard.
VerifyParsed_always(h, p) == ParseHeaders(h, p)

\* Packet.VerifyParsed()
VerifyParsed(h, p) == IF ~p.parsed THEN ParseHeaders(h, p) ELSE p

\* Packet.IpVersion(): [pkt, val]
IpVersion(h, p) == [pkt |-> p, val |-> p.ipVersion]

\* Packet.NextHeaderType(): [pkt, val]
NextHeaderType(h, p) ==
    LET q == VerifyParsed(h, p) IN [pkt |-> q, val |-> q.nextHeaderType]

\* Packet.SrcIP(): [pkt, val]
SrcIP(h, p) ==
    LET q == VerifyParsed(h, p) IN [pkt |-> q, val |-> IPv4SrcIP(h, q.IpHdr)]

\* Packet.SetSrcIP(ip): [pkt, heap]
SetSrcIP(h, p, ip) ==
    LET q == VerifyParsed(h, p)
        r == IPv4SetSrcIP(h, q.IpHdr, ip)
    IN  [pkt |-> [q EXCEPT !.IpHdr = r.hdr], heap |-> r.heap]

\* SrcPort that answers 0 without an error when there is no transport header.
SrcPort_noerr(h, p) ==
    LET q == VerifyParsed(h, p)
    IN  IF q.NextHeader.kind = "nil"
        THEN [pkt |-> q, val |-> 0, err |-> "nil"]
        ELSE [pkt |-> q, val |-> TCPSrcPort(h, q.NextHeader), err |-> "nil"]

\* Packet.SrcPort(): [pkt, val, err]
SrcPort(h, p) ==
    LET q == VerifyParsed(h, p)
    IN  IF q.NextHeader.kind = "nil"
        THEN [pkt |-> q, val |-> 0, err |-> "not implemented"]
        ELSE [pkt |-> q, val |-> TCPSrcPort(h, q.NextHeader), err |-> "nil"]

\* Packet.SetSrcPort(port): [pkt, heap, err]
SetSrcPort(h, p, port) ==
    LET q == VerifyParsed(h, p)
        r == TCPSetSrcPort(h, q.NextHeader, port)
    IN  IF q.NextHeader.kind = "nil"
        THEN [pkt |-> q, heap |-> h, err |-> "not implemented"]
        ELSE [pkt |-> [q EXCEPT !.NextHeader = r.hdr], heap |-> r.heap, err |-> "nil"]


\* UpdateTCPHeader that rebuilds Raw without storing its new length.
UpdateTCPHeader_stale(h, p, newCap) ==
    LET val == p.NextHeader.Raw
        hdrLen == p.hdrLen
        r == GoAppend(h, Sub(p.Raw, 0, hdrLen), val, newCap)
    IN  IF p.NextHeader.kind = "nil" THEN [pkt |-> p, heap |-> h, panic |-> TRUE]
        ELSE IF p.NextHeader.kind # "TCP" THEN [pkt |-> p, heap |-> h, panic |-> FALSE]
        ELSE IF val.len = p.Raw.len - hdrLen
        THEN [pkt |-> p, heap |-> CopySlice(h, p.Raw, hdrLen, val), panic |-> FALSE]
        ELSE [pkt |-> [p EXCEPT !.Raw = r.slice], heap |-> r.heap, panic |-> FALSE]

\* Packet.UpdateTCPHeader(): [pkt, heap, panic].  The assertion
\* p.NextHeader.(header.ProtocolHeader) panics on a nil NextHeader.
UpdateTCPHeader(h, p, newCap) ==
    LET val == p.NextHeader.Raw
        hdrLen == p.hdrLen
        r == GoAppend(h, Sub(p.Raw, 0, hdrLen), val, newCap)
        t == IPv4SetTotalLen(r.heap, p.IpHdr, r.slice.len % 65536)
    IN  IF p.NextHeader.kind = "nil" THEN [pkt |-> p, heap |-> h, panic |-> TRUE]
        ELSE IF p.NextHeader.kind # "TCP" THEN [pkt |-> p, heap |-> h, panic |-> FALSE]
        ELSE IF val.len = p.Raw.len - hdrLen
        THEN [pkt |-> p, heap |-> CopySlice(h, p.Raw, hdrLen, val), panic |-> FALSE]
        ELSE IF p.IpHdr.kind = "IPv4"
        THEN [pkt   |-> [p EXCEPT !.Raw = r.slice, !.IpHdr = t.hdr, !.PacketLen = r.slice.len],
              heap  |-> t.heap, panic |-> FALSE]
        ELSE [pkt   |-> [p EXCEPT !.Raw = r.slice, !.PacketLen = r.slice.len],
              heap  |-> r.heap, panic |-> FALSE]

\* Packet.DstIP(): [pkt, val]
DstIP(h, p) ==
    LET q == VerifyParsed(h, p) IN [pkt |-> q, val |-> IPv4DstIP(h, q.IpHdr)]

\* Packet.SetDstIP(ip): [pkt, heap]
SetDstIP(h, p, ip) ==
    LET q == VerifyParsed(h, p)
        r == IPv4SetDstIP(h, q.IpHdr, ip)
    IN  [pkt |-> [q EXCEPT !.IpHdr = r.hdr], heap |-> r.heap]

\* Packet.DstPort(): [pkt, val, err]
DstPort(h, p) ==
    LET q == VerifyParsed(h, p)
    IN  IF q.NextHeader.kind = "nil"
        THEN [pkt |-> q, val |-> 0, err |-> "not implemented"]
        ELSE [pkt |-> q, val |-> TCPDstPort(h, q.NextHeader), err |-> "nil"]

\* Packet.SetDstPort(port): [pkt, heap, err]
SetDstPort(h, p, port) ==
    LET q == VerifyParsed(h, p)
        r == TCPSetDstPort(h, q.NextHeader, port)
    IN  IF q.NextHeader.kind = "nil"
        THEN [pkt |-> q, heap |-> h, err |-> "not implemented"]
        ELSE [pkt |-> [q EXCEPT !.NextHeader = r.hdr], heap |-> r.heap, err |-> "nil"]

\* ------------------------------------------------------------------ driver
\* Packets the driver can deliver (byte 0: version/IHL, byte 9: protocol).
IPv4Bytes(proto, total) ==
    <<69, 0, 0, total, 0, 0, 0, 0, 64, proto, 0, 0, 10, 0, 0, 1, 10, 0, 0, 2>>

\* TCP header, source port 1234, destination port 80, data offset 5, SYN
TCPBytes == <<4, 210, 0, 80, 0, 0, 0, 1, 0, 0, 0, 0, 80, 2, 32, 0, 0, 0, 0, 0>>

PktTCP4 == IPv4Bytes(TCP, 42) \o TCPBytes \o <<7, 9>>
PktOther4 == IPv4Bytes(200, 24) \o <<1, 2, 3, 4>>

\* The traffic the capture program sees: the k-th packet the driver delivers
\* (TCP and an unrecognised protocol in turn), numbered in the low byte of its
\* IP identification field so that queued packets can be told apart.
DriverPacket(k) == [(IF k % 2 = 0 THEN PktTCP4 ELSE PktOther4) EXCEPT ![6] = (k + 1) % 256]

\* The number the driver gave a packet (byte 5 of the IP header).
PacketId(h, p) == ByteAt(h, p.Raw, 5)

\* The address the caller writes through the setters.
NewIP == <<192, 168, 0, 9>>

NoVal == [op |-> "none", val |-> <<>>, err |-> "nil"]

\* -------------------------------------------------------------------- Init
\* The state after NewWinDivertHandle succeeded and the workers were started.
Init ==
    /\ heap = <<>>
    /\ pool = <<>>
    /\ wdOpen = TRUE
    /\ hValid = TRUE
    /\ closeCalls = 0
    /\ nRecv = 0
    /\ loopPc = "idle"
    /\ loopBuf = NilSlice
    /\ loopPkt = NoPacket
    /\ loopErr = FALSE
    /\ chan = <<>>
    /\ chanClosed = FALSE
    /\ packetsErr = "none"
    /\ wPc = [w \in Workers |-> "range"]
    /\ wPkt = [w \in Workers |-> NoPacket]
    /\ wRet = [w \in Workers |-> [n |-> 0, err |-> "none"]]
    /\ wLog = [w \in Workers |-> <<>>]
    /\ wCalcErr = [w \in Workers |-> FALSE]
    /\ wVal = [w \in Workers |-> NoVal]
    /\ held = {}
    /\ lastRet = <<>>

poolVars == <<heap, pool>>
driverVars == <<hValid, closeCalls, nRecv>>
loopVars == <<loopPc, loopBuf, loopPkt, loopErr>>
chanVars == <<chan, chanClosed>>
sendVars == <<wRet, wLog, wCalcErr>>
clientVars == <<held, lastRet>>

\* ------------------------------------------------------------------- Close
\* WinDivertHandle.Close(): calls winDivertClose and clears open.
Close ==
    /\ closeCalls < MaxClose
    /\ closeCalls' = closeCalls + 1
    /\ hValid' = FALSE
    /\ wdOpen' = FALSE
    /\ UNCHANGED <<poolVars, nRecv, loopVars, chanVars,
                   packetsErr, wPc, wPkt, sendVars, wVal, clientVars>>

\* ----------------------------------------------------------------- Packets
\* WinDivertHandle.Packets(): fails on a closed handle, else makes the channel
\* and starts recvLoop (one receive loop per session is modelled).
Packets ==
    /\ IF ~wdOpen
       THEN packetsErr' = "closed" /\ UNCHANGED loopPc
       ELSE loopPc = "idle" /\ loopPc' = "check" /\ packetsErr' = "nil"
    /\ UNCHANGED <<poolVars, wdOpen, driverVars, loopBuf, loopPkt, loopErr, chanVars,
                   wPc, wPkt, sendVars, wVal, clientVars>>

\* ---------------------------------------------------------------- recvLoop
\* recvLoop that logs a Recv error and tries again instead of breaking.
LoopAfterRecv_retry(err) == IF err THEN "check" ELSE "publish"

\* Where recvLoop goes after `packet, err := wd.Recv()`.
LoopAfterRecv(err) == IF err THEN "broke" ELSE "publish"

\* `for wd.open`
recvLoop_check ==
    /\ loopPc = "check"
    /\ loopPc' = IF wdOpen THEN "Recv" ELSE "exited"
    /\ UNCHANGED <<poolVars, wdOpen, driverVars, loopBuf, loopPkt, loopErr, chanVars,
                   packetsErr, wPc, wPkt, sendVars, wVal, clientVars>>

\* Recv: `if !wd.open { return nil, errors.New(...) }`
Recv_check ==
    /\ loopPc = "Recv"
    /\ IF ~wdOpen
       THEN loopErr' = TRUE /\ loopPc' = LoopAfterRecv(TRUE)
       ELSE loopPc' = "GetBuffer" /\ UNCHANGED loopErr
    /\ UNCHANGED <<poolVars, wdOpen, driverVars, loopBuf, loopPkt, chanVars,
                   packetsErr, wPc, wPkt, sendVars, wVal, clientVars>>

\* Recv: `packetBuffer := GetBuffer()`
Recv_GetBuffer ==
    /\ loopPc = "GetBuffer"
    /\ \E r \in GetBuffer(heap, pool) :
         /\ heap' = r.heap
         /\ pool' = r.pool
         /\ loopBuf' = r.buf
    /\ loopPc' = "call"
    /\ UNCHANGED <<wdOpen, driverVars, loopPkt, loopErr, chanVars,
                   packetsErr, wPc, wPkt, sendVars, wVal, clientVars>>

\* Recv: winDivertRecv.Call.  On success the driver has written the packet at
\* packetBuffer[0..] and Recv wraps it; on failure Recv returns nil, err.
Recv_call ==
    /\ loopPc = "call"
    /\ \/ /\ hValid
          /\ nRecv < MaxRecv
          /\ LET t == DriverPacket(nRecv)
             IN  /\ heap' = CopyIn(heap, loopBuf, 0, t)
                 /\ loopPkt' = NewPacket(Sub(loopBuf, 0, Len(t)), Len(t), loopBuf)
          /\ nRecv' = nRecv + 1
          /\ loopErr' = FALSE
          /\ loopPc' = LoopAfterRecv(FALSE)
       \/ /\ loopErr' = TRUE
          /\ loopPc' = LoopAfterRecv(TRUE)
          /\ UNCHANGED <<heap, loopPkt, nRecv, clientVars>>
    /\ loopBuf' = NilSlice
    /\ UNCHANGED <<pool, wdOpen, hValid, closeCalls, chanVars,
                   packetsErr, wPc, wPkt, sendVars, wVal, clientVars>>

\* A send that gives the packet up when the channel is full instead of blocking.
recvLoop_publish_drop ==
    /\ loopPc = "publish"
    /\ chan' = IF Len(chan) < ChanCap THEN Append(chan, loopPkt) ELSE chan
    /\ loopPkt' = NoPacket
    /\ loopPc' = "check"
    /\ UNCHANGED <<poolVars, wdOpen, driverVars, loopBuf, loopErr, chanClosed,
                   packetsErr, wPc, wPkt, sendVars, wVal, clientVars>>

\* `packetChan <- packet`: blocks while the channel is full.
recvLoop_publish ==
    /\ loopPc = "publish"
    /\ Len(chan) < ChanCap
    /\ chan' = Append(chan, loopPkt)
    /\ loopPkt' = NoPacket
    /\ loopPc' = "check"
    /\ UNCHANGED <<poolVars, wdOpen, driverVars, loopBuf, loopErr, chanClosed,
                   packetsErr, wPc, wPkt, sendVars, wVal, clientVars>>

\* ----------------------------------------------------------------- workers
\* A receive that takes the packet queued last.
checkPacket_range_last(w) ==
    /\ wPc[w] = "range"
    /\ IF chan # <<>>
       THEN /\ wPkt' = [wPkt EXCEPT ![w] = chan[Len(chan)]]
            /\ chan' = SubSeq(chan, 1, Len(chan) - 1)
            /\ wPc' = [wPc EXCEPT ![w] = "got"]
       ELSE /\ chanClosed
            /\ wPc' = [wPc EXCEPT ![w] = "exited"]
            /\ UNCHANGED <<wPkt, chan>>
    /\ UNCHANGED <<poolVars, wdOpen, driverVars, loopVars, chanClosed, packetsErr,
                   sendVars, wVal, clientVars>>

\* checkPacket: `for packet := range packetChan` takes the head of the queue,
\* blocks while it is empty, and leaves the loop once it is closed and empty.
checkPacket_range(w) ==
    /\ wPc[w] = "range"
    /\ IF chan # <<>>
       THEN /\ wPkt' = [wPkt EXCEPT ![w] = Head(chan)]
            /\ chan' = Tail(chan)
            /\ wPc' = [wPc EXCEPT ![w] = "got"]
       ELSE /\ chanClosed
            /\ wPc' = [wPc EXCEPT ![w] = "exited"]
            /\ UNCHANGED <<wPkt, chan, clientVars>>
    /\ UNCHANGED <<poolVars, wdOpen, driverVars, loopVars, chanClosed, packetsErr,
                   sendVars, wVal, clientVars>>

\* checkPacket: countPacket(packet), which calls packet.NextHeaderType() (the
\* value only feeds the counters); wd.Send(packet) is called next.
countPacket(w) ==
    /\ wPc[w] = "got"
    /\ LET r == NextHeaderType(heap, wPkt[w])
       IN  wPkt' = [wPkt EXCEPT ![w] = r.pkt]
    /\ wPc' = [wPc EXCEPT ![w] = "wdSend"]
    /\ UNCHANGED <<poolVars, wdOpen, driverVars, loopVars, chanVars, packetsErr,
                   sendVars, wVal, clientVars>>

\* ------------------------------------------------- one packet and its caller
\* The caller of examples/readPacket: it holds one packet, calls the packet's
\* methods on it in any order, and sends it with packet.Send; the handle may be
\* closed at any moment.  The packet comes from Recv (pool-backed) or was built
\* by the caller around its own byte slice (no pooled buffer).
PktTemplates == {PktTCP4, PktOther4}
Ports == {8080, 1234}
Caller == CHOOSE w \in Workers : \A v \in Workers : w <= v

InitCallerOf(templates, own) ==
    /\ \E t \in templates, pooled \in BOOLEAN :
         /\ heap = <<[size |-> IF pooled THEN PacketBufferSize ELSE Len(t), data |-> Stored(t)]>> \o own
         /\ wPkt = [w \in Workers |->
                      IF w = Caller
                      THEN NewPacket([arr |-> 1, off |-> 0, len |-> Len(t)], Len(t),
                                     IF pooled
                                     THEN [arr |-> 1, off |-> 0, len |-> PacketBufferSize]
                                     ELSE NilSlice)
                      ELSE NoPacket]
    /\ pool = <<>>
    /\ wdOpen = TRUE
    /\ hValid = TRUE
    /\ closeCalls = 0
    /\ nRecv = 1
    /\ loopPc = "idle"
    /\ loopBuf = NilSlice
    /\ loopPkt = NoPacket
    /\ loopErr = FALSE
    /\ chan = <<>>
    /\ chanClosed = FALSE
    /\ packetsErr = "none"
    /\ wPc = [w \in Workers |-> IF w = Caller THEN "got" ELSE "range"]
    /\ wRet = [w \in Workers |-> [n |-> 0, err |-> "none"]]
    /\ wLog = [w \in Workers |-> <<>>]
    /\ wCalcErr = [w \in Workers |-> FALSE]
    /\ wVal = [w \in Workers |-> NoVal]
    /\ held = {}
    /\ lastRet = <<>>

\* The caller's packet is well-formed IPv4.
InitCaller(own) == InitCallerOf(PktTemplates, own)

\* The caller holds one packet and no other byte slice.
InitPkt == InitCaller(<<>>)

\* What a call on the caller's packet leaves alone.
callFrame == <<pool, wdOpen, driverVars, loopVars, chanVars, packetsErr, wPc, sendVars>>

\* The call panics: the caller's goroutine stops there.
Panicked(w, op) ==
    /\ wPc' = [wPc EXCEPT ![w] = "panicked"]
    /\ wVal' = [wVal EXCEPT ![w] = [op |-> op, val |-> <<>>, err |-> "panic"]]
    /\ UNCHANGED <<poolVars, wdOpen, driverVars, loopVars, chanVars, packetsErr,
                   wPkt, sendVars, clientVars>>

\* The methods of Packet that call VerifyParsed first.
ParsingOps == {"VerifyParsed", "NextHeaderType", "SrcIP", "DstIP", "SrcPort", "DstPort",
               "SetSrcIP", "SetDstIP", "SetSrcPort", "SetDstPort"}

\* The call runs ParseHeaders and ParseHeaders panics.
Aborts(w, op) ==
    /\ op = "ParseHeaders" \/ (op \in ParsingOps /\ ~wPkt[w].parsed)
    /\ ParsePanics(heap, wPkt[w])

\* A call that returns a value and may parse the packet.
Returns(w, op, r, val, err) ==
    IF Aborts(w, op)
    THEN Panicked(w, op)
    ELSE /\ wPkt' = [wPkt EXCEPT ![w] = r.pkt]
         /\ wVal' = [wVal EXCEPT ![w] = [op |-> op, val |-> val, err |-> err]]
         /\ UNCHANGED <<heap, callFrame, clientVars>>

\* A call that writes the packet's bytes.
Writes(w, op, r, err) ==
    IF Aborts(w, op)
    THEN Panicked(w, op)
    ELSE /\ wPkt' = [wPkt EXCEPT ![w] = r.pkt]
         /\ heap' = r.heap
         /\ wVal' = [wVal EXCEPT ![w] = [op |-> op, val |-> <<>>, err |-> err]]
         /\ UNCHANGED <<callFrame, clientVars>>

CallParseHeaders(w) ==
    /\ wPc[w] = "got"
    /\ Returns(w, "ParseHeaders", [pkt |-> ParseHeaders(heap, wPkt[w])], <<>>, "nil")

CallVerifyParsed(w) ==
    /\ wPc[w] = "got"
    /\ Returns(w, "VerifyParsed", [pkt |-> VerifyParsed(heap, wPkt[w])], <<>>, "nil")

CallIpVersion(w) ==
    /\ wPc[w] = "got"
    /\ LET r == IpVersion(heap, wPkt[w]) IN Returns(w, "IpVersion", r, <<r.val>>, "nil")

CallNextHeaderType(w) ==
    /\ wPc[w] = "got"
    /\ LET r == NextHeaderType(heap, wPkt[w]) IN Returns(w, "NextHeaderType", r, <<r.val>>, "nil")

CallSrcIP(w) ==
    /\ wPc[w] = "got"
    /\ LET r == SrcIP(heap, wPkt[w]) IN Returns(w, "SrcIP", r, r.val, "nil")

CallDstIP(w) ==
    /\ wPc[w] = "got"
    /\ LET r == DstIP(heap, wPkt[w]) IN Returns(w, "DstIP", r, r.val, "nil")

CallSrcPort(w) ==
    /\ wPc[w] = "got"
    /\ LET r == SrcPort(heap, wPkt[w]) IN Returns(w, "SrcPort", r, <<r.val>>, r.err)

CallDstPort(w) ==
    /\ wPc[w] = "got"
    /\ LET r == DstPort(heap, wPkt[w]) IN Returns(w, "DstPort", r, <<r.val>>, r.err)

CallSetSrcIP(w) ==
    /\ wPc[w] = "got"
    /\ Writes(w, "SetSrcIP", SetSrcIP(heap, wPkt[w], NewIP), "nil")

CallSetDstIP(w) ==
    /\ wPc[w] = "got"
    /\ Writes(w, "SetDstIP", SetDstIP(heap, wPkt[w], NewIP), "nil")

CallSetSrcPort(w) ==
    /\ wPc[w] = "got"
    /\ \E port \in Ports :
         LET r == SetSrcPort(heap, wPkt[w], port) IN Writes(w, "SetSrcPort", r, r.err)

CallSetDstPort(w) ==
    /\ wPc[w] = "got"
    /\ \E port \in Ports :
         LET r == SetDstPort(heap, wPkt[w], port) IN Writes(w, "SetDstPort", r, r.err)

\* What the caller passes to the TCP header's setters.
PayloadLens == <<2, 4, 65535>>
SeqNums == {1, 258}
AckNums == {0}

\* The caller's payload slices: heap arrays 2.., one of each length, first byte 171.
PayloadArrays == [i \in 1..Len(PayloadLens) |-> [size |-> PayloadLens[i], data |-> Stored(<<171>>)]]
PayloadSlice(i) == [arr |-> 1 + i, off |-> 0, len |-> PayloadLens[i]]

\* The caller holds one packet and the payload slices.
InitTcp == InitCaller(PayloadArrays)

\* packet.NextHeader.(*header.TCPHeader).SetPayload(val), val one of the
\* slices the caller holds.
SetPayloadCall(w, slices) ==
    /\ wPc[w] = "got"
    /\ wPkt[w].NextHeader.kind = "TCP"
    /\ \E val \in slices :
             \E newCap \in GrowCaps(wPkt[w].NextHeader.Raw.len - wPkt[w].NextHeader.Payload.len + val.len) :
               LET r == TCPSetPayload(heap, wPkt[w].NextHeader, val, newCap)
               IN  /\ Len(r.heap) <= MaxArrays
                   /\ Writes(w, "SetPayload",
                             [pkt |-> [wPkt[w] EXCEPT !.NextHeader = r.hdr], heap |-> r.heap],
                             "nil")

\* SetPayload with one of the payload slices of InitTcp.
CallSetPayload(w) == SetPayloadCall(w, {PayloadSlice(i) : i \in 1..Len(PayloadLens)})

\* packet.UpdateTCPHeader()
CallUpdateTCPHeader(w) ==
    /\ wPc[w] = "got"
    /\ \E newCap \in GrowCaps(wPkt[w].hdrLen + wPkt[w].NextHeader.Raw.len) :
         LET r == UpdateTCPHeader(heap, wPkt[w], newCap)
         IN  IF r.panic
             THEN Panicked(w, "UpdateTCPHeader") /\ UNCHANGED heap
             ELSE /\ Len(r.heap) <= MaxArrays
                  /\ Writes(w, "UpdateTCPHeader", r, "nil")

\* packet.NextHeader.(*header.TCPHeader).SetSeqNum(seqNum)
CallSetSeqNum(w) ==
    /\ wPc[w] = "got"
    /\ wPkt[w].NextHeader.kind = "TCP"
    /\ \E n \in SeqNums :
         LET r == TCPSetSeqNum(heap, wPkt[w].NextHeader, n)
         IN  Writes(w, "SetSeqNum",
                    [pkt |-> [wPkt[w] EXCEPT !.NextHeader = r.hdr], heap |-> r.heap], "nil")

\* packet.NextHeader.(*header.TCPHeader).SetAckNum(ackNum)
CallSetAckNum(w) ==
    /\ wPc[w] = "got"
    /\ wPkt[w].NextHeader.kind = "TCP"
    /\ \E n \in AckNums :
         LET r == TCPSetAckNum(heap, wPkt[w].NextHeader, n)
         IN  Writes(w, "SetAckNum",
                    [pkt |-> [wPkt[w] EXCEPT !.NextHeader = r.hdr], heap |-> r.heap], "nil")

\* packet.NextHeader.(*header.TCPHeader).SeqNum() and AckNum()
CallSeqNum(w) ==
    /\ wPc[w] = "got"
    /\ wPkt[w].NextHeader.kind = "TCP"
    /\ Returns(w, "SeqNum", [pkt |-> wPkt[w]],
               <<TCPSeqNum(heap, wPkt[w].NextHeader), TCPAckNum(heap, wPkt[w].NextHeader)>>, "nil")

\* The condition of Packet.Send without the transport header's flag.
SendNeedsChecksum_ipOnly(p) == p.parsed /\ NeedNewChecksum(p.IpHdr)

\* Packet.Send: the condition under which HelperCalcChecksum is called.
SendNeedsChecksum(p) ==
    p.parsed /\ (NeedNewChecksum(p.IpHdr)
                 \/ (p.NextHeader.kind # "nil" /\ NeedNewChecksum(p.NextHeader)))

\* Packet.Send(wd), up to its call of wd.Send: HelperCalcChecksum (the driver
\* recomputes the checksums, and may fail) if the packet needs it.  An error
\* of HelperCalcChecksum is printed and Send goes on to wd.Send.
PacketSend(w) ==
    /\ wPc[w] = "got"
    /\ wRet' = [wRet EXCEPT ![w] = [n |-> 0, err |-> "none"]]
    /\ IF SendNeedsChecksum(wPkt[w])
       THEN \E ok \in BOOLEAN :
              /\ wLog' = [wLog EXCEPT ![w] = <<"calc">>]
              /\ wCalcErr' = [wCalcErr EXCEPT ![w] = ~ok]
              /\ wPc' = [wPc EXCEPT ![w] = "wdSend"]
       ELSE /\ wLog' = [wLog EXCEPT ![w] = <<>>]
            /\ wCalcErr' = [wCalcErr EXCEPT ![w] = FALSE]
            /\ wPc' = [wPc EXCEPT ![w] = "wdSend"]
    /\ UNCHANGED <<poolVars, wdOpen, driverVars, loopVars, chanVars, packetsErr,
                   wPkt, wVal, clientVars>>

\* WinDivertHandle.Send: `if !wd.open { return 0, errors.New(...) }`
WdSend_check(w) ==
    /\ wPc[w] = "wdSend"
    /\ IF ~wdOpen
       THEN /\ wRet' = [wRet EXCEPT ![w] = [n |-> 0, err |-> "closed"]]
            /\ wPc' = [wPc EXCEPT ![w] = "ret"]
       ELSE /\ wPc' = [wPc EXCEPT ![w] = "inject"]
            /\ UNCHANGED wRet
    /\ UNCHANGED <<poolVars, wdOpen, driverVars, loopVars, chanVars, packetsErr,
                   wPkt, wLog, wCalcErr, wVal, clientVars>>

\* WinDivertHandle.Send: winDivertSend.Call, then ReturnBuffer, then the result.
WdSend_inject(w) ==
    /\ wPc[w] = "inject"
    /\ wLog' = [wLog EXCEPT ![w] = Append(@, "send")]
    /\ LET r == ReturnBuffer(heap, pool, getBuffer(wPkt[w]), wPkt[w].PacketLen)
       IN  /\ heap' = r.heap
           /\ pool' = r.pool
           /\ \E ok \in {TRUE, FALSE} :
                /\ ok => hValid
                /\ wRet' = [wRet EXCEPT ![w] =
                              IF r.panic THEN [n |-> 0, err |-> "panic"]
                              ELSE IF ok THEN [n |-> wPkt[w].PacketLen, err |-> "nil"]
                              ELSE [n |-> 0, err |-> "inject"]]
    /\ wPc' = [wPc EXCEPT ![w] = "ret"]
    /\ UNCHANGED <<wdOpen, driverVars, loopVars, chanVars,
                   packetsErr, wPkt, wCalcErr, wVal, clientVars>>

\* checkPacket: the next iteration of the range loop; the packet is dropped.
checkPacket_next(w) ==
    /\ wPc[w] = "ret"
    /\ wPc' = [wPc EXCEPT ![w] = "range"]
    /\ wPkt' = [wPkt EXCEPT ![w] = NoPacket]
    /\ wRet' = [wRet EXCEPT ![w] = [n |-> 0, err |-> "none"]]
    /\ wLog' = [wLog EXCEPT ![w] = <<>>]
    /\ wCalcErr' = [wCalcErr EXCEPT ![w] = FALSE]
    /\ UNCHANGED <<poolVars, wdOpen, driverVars, loopVars, chanVars, packetsErr, wVal, clientVars>>

\* ------------------------------------------------------------ specification
\* The capture program: Packets() starts recvLoop, the workers run checkPacket,
\* the caller closes the handle.
Next ==
    \/ Close
    \/ Packets
    \/ recvLoop_check
    \/ Recv_check
    \/ Recv_GetBuffer
    \/ Recv_call
    \/ recvLoop_publish
    \/ \E w \in Workers :
         \/ checkPacket_range(w)
         \/ countPacket(w)
         \/ WdSend_check(w)
         \/ WdSend_inject(w)
         \/ checkPacket_next(w)

Spec == Init /\ [][Next]_vars

\* The caller of one packet (examples/readPacket, with every packet method).
NextPkt ==
    \/ Close
    \/ CallParseHeaders(Caller)
    \/ CallVerifyParsed(Caller)
    \/ CallIpVersion(Caller)
    \/ CallNextHeaderType(Caller)
    \/ CallSrcIP(Caller)
    \/ CallDstIP(Caller)
    \/ CallSrcPort(Caller)
    \/ CallDstPort(Caller)
    \/ CallSetSrcIP(Caller)
    \/ CallSetDstIP(Caller)
    \/ CallSetSrcPort(Caller)
    \/ CallSetDstPort(Caller)
    \/ PacketSend(Caller)
    \/ WdSend_check(Caller)
    \/ WdSend_inject(Caller)

SpecPkt == InitPkt /\ [][NextPkt]_vars

\* The caller of one packet's TCP header view: every setter and getter of
\* header.TCPHeader, in any order, and ParseHeaders; SetPayload may make
\* append allocate until the heap holds MaxHdrArrays arrays.
NextHdr ==
    \/ CallParseHeaders(Caller)
    \/ CallSetSrcPort(Caller)
    \/ CallSetDstPort(Caller)
    \/ CallSetSeqNum(Caller)
    \/ CallSetAckNum(Caller)
    \/ (CallSetPayload(Caller) /\ Len(heap') <= MaxHdrArrays)
    \/ CallSrcPort(Caller)
    \/ CallDstPort(Caller)
    \/ CallSeqNum(Caller)

SpecHdr == InitTcp /\ [][NextHdr]_vars

\* Packets of IP version 4, 6 and 5 carrying each transport protocol
\* ParseHeaders knows and one it does not: 64 bytes, the protocol number
\* where the version's header keeps it, a TCP data offset of 5 words where a
\* TCP header would start.
Versions == {4, 6, 5}
Protocols == {ICMPv4, TCP, UDP, ICMPv6, 200}
VersionPacket(ver, proto) ==
    [i \in 1..64 |->
        CASE i = 1 -> IF ver = 6 THEN 96 ELSE ver * 16 + 5
          [] i = 7 -> IF ver = 4 THEN 0 ELSE proto
          [] i = 10 -> IF ver = 4 THEN proto ELSE 0
          [] i = 33 -> IF ver = 4 THEN 80 ELSE 0
          [] i = 53 -> IF ver = 4 THEN 0 ELSE 80
          [] OTHER -> 0]
VersionPackets == {VersionPacket(ver, proto) : ver \in Versions, proto \in Protocols}

\* The caller that parses one such packet and reads what was parsed.
InitParse == InitCallerOf(VersionPackets, <<>>)
NextParse ==
    \/ CallParseHeaders(Caller)
    \/ CallVerifyParsed(Caller)
    \/ CallIpVersion(Caller)
    \/ CallNextHeaderType(Caller)

SpecParse == InitParse /\ [][NextParse]_vars

\* Malformed packets: no bytes; 12 bytes of an IPv4 header that declares 20;
\* an IPv4 header followed by 4 bytes of a TCP header, and of a UDP header;
\* a TCP header whose data offset (15 words) points past the end of the buffer.
MalEmpty == <<>>
MalShortIP == SubSeq(IPv4Bytes(TCP, 12), 1, 12)
MalShortTCP == IPv4Bytes(TCP, 24) \o <<4, 210, 0, 80>>
MalShortUDP == IPv4Bytes(UDP, 24) \o <<4, 210, 0, 80>>
MalDataOffset == IPv4Bytes(TCP, 40) \o [TCPBytes EXCEPT ![13] = 240]
MalformedPackets == {MalEmpty, MalShortIP, MalShortTCP, MalShortUDP, MalDataOffset}

\* The caller of one packet, the packet malformed.
InitMal == InitCallerOf(MalformedPackets, <<>>)
SpecMal == InitMal /\ [][NextPkt]_vars

\* The caller that replaces the payload of one TCP packet (2 bytes of payload
\* as received) by a shorter, an equally long or a longer one, none of whose
\* bytes is zero, writes through the TCP header view, and sends the packet.
ViewLens == <<1, 2, 4>>
ViewArrays == [i \in 1..Len(ViewLens) |->
                 [size |-> ViewLens[i], data |-> [k \in 1..ViewLens[i] |-> 171]]]
ViewSlices == {[arr |-> 1 + i, off |-> 0, len |-> ViewLens[i]] : i \in 1..Len(ViewLens)}

InitView == InitCallerOf({PktTCP4}, ViewArrays)
NextView ==
    \/ CallParseHeaders(Caller)
    \/ SetPayloadCall(Caller, ViewSlices)
    \/ CallUpdateTCPHeader(Caller)
    \/ CallSetSeqNum(Caller)
    \/ PacketSend(Caller)
    \/ WdSend_check(Caller)
    \/ WdSend_inject(Caller)

SpecView == InitView /\ [][NextView]_vars

\* The steps of the recvLoop goroutine (with the Recv call it makes).
recvLoop ==
    \/ recvLoop_check
    \/ Recv_check
    \/ Recv_GetBuffer
    \/ Recv_call
    \/ recvLoop_publish

\* The capture program where the recvLoop goroutine is scheduled fairly and
\* the driver's receive call returns; nothing is assumed about the consumers.
SpecLoop == Init /\ [][Next]_vars /\ WF_vars(recvLoop)

\* The steps of one checkPacket goroutine.
checkPacket(w) ==
    \/ checkPacket_range(w)
    \/ countPacket(w)
    \/ WdSend_check(w)
    \/ WdSend_inject(w)
    \/ checkPacket_next(w)

\* The capture program with every goroutine scheduled fairly.
SpecFair ==
    /\ Init /\ [][Next]_vars
    /\ WF_vars(recvLoop)
    /\ \A w \in Workers : WF_vars(checkPacket(w))

\* The caller of one packet that replaces the TCP payload: ParseHeaders,
\* SetPayload, a header setter, UpdateTCPHeader, then Send.
NextTcp ==
    \/ CallParseHeaders(Caller)
    \/ CallSetPayload(Caller)
    \/ CallUpdateTCPHeader(Caller)
    \/ CallSetAckNum(Caller)
    \/ CallSeqNum(Caller)
    \/ PacketSend(Caller)
    \/ WdSend_check(Caller)
    \/ WdSend_inject(Caller)

SpecTcp == InitTcp /\ [][NextTcp]_vars

TypeOK ==
    /\ wdOpen \in BOOLEAN
    /\ loopPc \in {"idle", "check", "Recv", "GetBuffer", "call", "publish", "broke", "exited"}
    /\ Len(chan) <= ChanCap

\* ------------------------------------------------- a direct user of the pool
\* GetBuffer and ReturnBuffer are exported: a caller may take buffers, write
\* into them and give them back with any usedLength.
WriteIdx == {0, PacketBufferSize - 1}
RetLens == {0, 1, PacketBufferSize}
NeverReturned == [ret |-> FALSE, k |-> 0, dirty |-> FALSE]

InitPool == Init

idleFrame == <<wdOpen, driverVars, loopVars, chanVars, packetsErr, wPc, wPkt, sendVars, wVal>>

ClientGet ==
    /\ \E r \in GetBuffer(heap, pool) :
         /\ Len(r.heap) <= MaxBufs
         /\ heap' = r.heap
         /\ pool' = r.pool
         /\ held' = held \cup {r.buf}
         /\ lastRet' = IF Len(r.heap) > Len(heap) THEN Append(lastRet, NeverReturned)
                       ELSE lastRet
    /\ UNCHANGED idleFrame

ClientWrite ==
    /\ \E b \in held, i \in WriteIdx : heap' = StoreAt(heap, b, i, 255)
    /\ UNCHANGED <<pool, held, lastRet, idleFrame>>

ClientReturn ==
    /\ \E b \in held, k \in RetLens :
         LET r == ReturnBuffer(heap, pool, b, k)
         IN  /\ heap' = r.heap
             /\ pool' = r.pool
             /\ held' = held \ {b}
             /\ lastRet' = [lastRet EXCEPT ![b.arr] =
                              [ret |-> TRUE, k |-> k,
                               dirty |-> \E i \in WriteIdx : i < k /\ ByteAt(heap, b, i) # 0]]
    /\ UNCHANGED idleFrame

NextPool == ClientGet \/ ClientWrite \/ ClientReturn

SpecPool == InitPool /\ [][NextPool]_vars

\* ------------------------------------------------------------------ claims
\* Array a is stored in the pool n times.
PoolCount(a) == Cardinality({i \in 1..Len(pool) : pool[i].arr = a})

InPool(pl, b) == \E i \in 1..Len(pl) : pl[i].arr = b.arr

\* Packet p references array a (through Raw or through its saved buffer).
Refs(p, a) == p.Raw.arr = a \/ p.Buffer.arr = a

\* The workers holding a packet they have not yet finished sending.
LiveWorkers == {w \in Workers : wPc[w] \in {"got", "wdSend", "inject"}}

\* The number of owners of array a: pool entries, Recv's local buffer, and the
\* live packets (recvLoop's, queued, held by a worker).
Owners(a) ==
    PoolCount(a)
    + (IF loopBuf.arr = a THEN 1 ELSE 0)
    + (IF Refs(loopPkt, a) THEN 1 ELSE 0)
    + Cardinality({i \in 1..Len(chan) : Refs(chan[i], a)})
    + Cardinality({w \in LiveWorkers : Refs(wPkt[w], a)})

\* C1: every Send on a pool-backed packet has put the packet's buffer into the
\* pool when it returns, whatever the outcome (injected, injection failed,
\* handle already closed).
C1_SendReturnsBuffer ==
    [][\A w \in Workers :
         (wPc[w] \in {"wdSend", "inject"} /\ wPc'[w] = "ret"
          /\ wPkt[w].Buffer.len = PacketBufferSize)
         => InPool(pool', wPkt[w].Buffer)]_vars

\* C2: a pooled buffer has at most one owner in every reachable state: it is
\* in the pool once, or held by Recv, or referenced by one live packet.
C2_ExclusiveOwner == \A a \in 1..Len(heap) : Owners(a) <= 1

\* C2 witness: the only buffer ever allocated carries the second packet, so it
\* went through ReturnBuffer and GetBuffer again, and a worker is sending it.
C2_Witness ==
    /\ Len(heap) = 1
    /\ nRecv = 2
    /\ \E w \in Workers : wPc[w] = "inject" /\ Refs(wPkt[w], 1)

\* C8: once the handle is closed, no call has any further effect: Close does
\* not reach the driver again, Recv and Send fail before their driver call,
\* Packets starts no loop, and the handle stays closed.
C8_CloseIdempotent ==
    [][~wdOpen =>
         /\ closeCalls' = closeCalls
         /\ ~wdOpen'
         /\ (loopPc = "Recv" => loopPc' # "GetBuffer")
         /\ (loopPc = "idle" => loopPc' = "idle")
         /\ \A w \in Workers : wPc[w] = "wdSend" => wPc'[w] # "inject"]_vars

\* C9: once a Recv call of the loop has returned an error, the loop has ended
\* and stays so, nothing is appended to the queue, the queue only loses its
\* head to a worker, the queued packets keep their bytes, and a waiting worker
\* can still receive the head.
C9_NoPublishAfterError ==
    /\ [](loopErr /\ chan # <<>> =>
            \A w \in Workers : wPc[w] = "range" => ENABLED checkPacket_range(w))
    /\ [][loopErr =>
            /\ loopErr'
            /\ loopPc' = "broke"
            /\ \/ chan' = chan
               \/ /\ chan # <<>>
                  /\ chan' = Tail(chan)
                  /\ \E w \in Workers : wPc'[w] = "got" /\ wPkt'[w] = Head(chan)
            /\ \A i \in 1..Len(chan') :
                 Bytes(heap', chan'[i].Raw) = Bytes(heap, chan'[i].Raw)]_vars

\* C9 witness: the loop has ended on a Recv error with a packet still queued
\* and a worker waiting for it.
C9_Witness ==
    /\ loopErr
    /\ loopPc = "broke"
    /\ chan # <<>>
    /\ \E w \in Workers : wPc[w] = "range"

\* C10: when Recv has returned an error in recvLoop, the loop has stopped and
\* the packet channel is closed.
C10_ChannelClosedOnError == loopPc = "broke" => chanClosed

\* The bytes b[0..k-1] are all zero.
ZeroUpTo(h, b, k) ==
    \A j \in DOMAIN h[b.arr].data : ~(b.off < j /\ j <= b.off + k)

\* C3: a buffer that GetBuffer hands out has length PacketBufferSize, and if
\* it was given to ReturnBuffer(buffer, k) before, its bytes 0..k-1 are zero.
C3_ReacquiredZeroed ==
    [][\A b \in held' \ held :
         /\ b.len = PacketBufferSize
         /\ lastRet'[b.arr].ret => ZeroUpTo(heap', b, lastRet'[b.arr].k)]_vars

\* C3 witness: the user holds again a buffer that it returned with
\* k = PacketBufferSize while bytes below k were non-zero.
C3_Witness ==
    \E b \in held : /\ lastRet[b.arr].ret
                    /\ lastRet[b.arr].k = PacketBufferSize
                    /\ lastRet[b.arr].dirty

\* The caller's packet.
pkt == wPkt[Caller]

Reflects(h, p, v) ==
    CASE v.op = "IpVersion"      -> v.val = <<ByteAt(h, p.Raw, 0) \div 16>>
      [] v.op = "NextHeaderType" -> v.val = <<ByteAt(h, p.Raw, 9)>>
      [] v.op = "SrcIP"          -> v.val = Bytes(h, Sub(p.Raw, 12, 16))
      [] v.op = "DstIP"          -> v.val = Bytes(h, Sub(p.Raw, 16, 20))
      [] v.op = "SrcPort"        ->
           v.err = "nil" => v.val = <<ByteAt(h, p.Raw, 20) * 256 + ByteAt(h, p.Raw, 21)>>
      [] v.op = "DstPort"        ->
           v.err = "nil" => v.val = <<ByteAt(h, p.Raw, 22) * 256 + ByteAt(h, p.Raw, 23)>>
      [] OTHER                   -> TRUE

AccessorCall ==
    \/ CallIpVersion(Caller) \/ CallNextHeaderType(Caller)
    \/ CallSrcIP(Caller) \/ CallDstIP(Caller) \/ CallSetSrcIP(Caller) \/ CallSetDstIP(Caller)
    \/ CallSrcPort(Caller) \/ CallDstPort(Caller)
    \/ CallSetSrcPort(Caller) \/ CallSetDstPort(Caller)

\* C5: every version, address or port accessor called on an unparsed packet
\* parses it and returns what the bytes say, and parsed never goes back to false.
C5_AccessorsParse ==
    [][/\ pkt.parsed => pkt'.parsed
       /\ AccessorCall => (pkt'.parsed /\ Reflects(heap', pkt', wVal'[Caller]))]_vars

\* C6: in a Packet.Send the driver is asked to recompute the checksums exactly
\* when the packet is parsed and its IP header or its (non-nil) transport
\* header is Modified, and then before the injection; the injection call is
\* made whenever the handle was open.
C6_ChecksumWhenModified ==
    LET need == pkt.parsed /\ (pkt.IpHdr.Modified
                               \/ (pkt.NextHeader.kind # "nil" /\ pkt.NextHeader.Modified))
    IN  /\ wPc[Caller] = "wdSend" => wLog[Caller] = IF need THEN <<"calc">> ELSE <<>>
        /\ wPc[Caller] = "inject" => wLog[Caller] = IF need THEN <<"calc">> ELSE <<>>
        /\ (wPc[Caller] = "ret" /\ wRet[Caller].err # "closed") =>
             wLog[Caller] = IF need THEN <<"calc", "send">> ELSE <<"send">>
        /\ (wPc[Caller] = "ret" /\ wRet[Caller].err = "closed") =>
             wLog[Caller] = IF need THEN <<"calc">> ELSE <<>>

\* C6 witness: a Send of a packet whose TCP header alone is Modified has asked
\* for the checksums and then injected.
C6_Witness ==
    /\ wPc[Caller] = "ret"
    /\ wLog[Caller] = <<"calc", "send">>
    /\ ~pkt.IpHdr.Modified /\ pkt.NextHeader.Modified

\* C7: a Send during which the driver failed to recompute the checksums does
\* not return success.
C7_ChecksumFailureReturned ==
    (wPc[Caller] = "ret" /\ wCalcErr[Caller]) => wRet[Caller].err \notin {"nil", "none"}

C12_BoundedQueueBackpressure ==
    /\ [](Len(chan) <= ChanCap)
    /\ [][(loopPc = "publish" /\ Len(chan) = ChanCap) =>
            (loopPc' = "publish" /\ loopPkt' = loopPkt)]_vars
    /\ [][(loopPc = "publish" /\ loopPc' # "publish") =>
            (chan' = Append(chan, loopPkt))]_vars
    /\ (loopPc = "publish") ~> (loopPc # "publish")

\* C12 witness: the loop holds a received packet while the queue is full.
C12_Witness == loopPc = "publish" /\ Len(chan) = ChanCap /\ loopPkt.PacketLen > 0


\* The packets Recv has returned to the loop that no worker has been handed yet.
NotYetHanded == Len(chan) + (IF loopPc = "publish" THEN 1 ELSE 0)

\* C13: workers are handed the packets in the order in which Recv returned
\* them: the packet a worker receives is the next one after those already
\* handed out, whichever worker receives it.
C13_FifoDelivery ==
    [][\A w \in Workers :
         (wPc[w] = "range" /\ wPc'[w] = "got") =>
            (PacketId(heap', wPkt'[w]) = nRecv - NotYetHanded + 1)]_vars

\* C13 witness: two workers hold the first and the second packet at the same
\* time while the third is queued.
C13_Witness ==
    /\ \E w, v \in Workers :
         /\ wPc[w] = "got" /\ PacketId(heap, wPkt[w]) = 2
         /\ wPc[v] \in {"got", "wdSend", "inject"} /\ PacketId(heap, wPkt[v]) = 1
    /\ Len(chan) = 1 /\ PacketId(heap, chan[1]) = 3


\* The next-protocol value in the packet's bytes is none of ICMPv4, TCP, UDP, ICMPv6.
UnknownProtocol(h, p) ==
    LET nh == IF ByteAt(h, p.Raw, 0) \div 16 = 4 THEN ByteAt(h, p.Raw, 9)
              ELSE ByteAt(h, p.Raw, 6)
    IN  nh \notin {1, 6, 17, 58}

PortCall ==
    \/ CallSrcPort(Caller) \/ CallDstPort(Caller)
    \/ CallSetSrcPort(Caller) \/ CallSetDstPort(Caller)

\* C14: on a packet of an unrecognised protocol ParseHeaders ends with no
\* transport header and parsed = true, and SrcPort, DstPort, SetSrcPort and
\* SetDstPort each return the protocol-not-implemented error and leave the
\* bytes, Raw, PacketLen and the Modified flags as they were.
C14_PortsUnsupportedProtocol ==
    [][UnknownProtocol(heap, pkt) =>
         /\ CallParseHeaders(Caller) => (pkt'.parsed /\ pkt'.NextHeader.kind = "nil")
         /\ PortCall =>
              /\ wVal'[Caller].err = "not implemented"
              /\ pkt'.parsed /\ pkt'.NextHeader.kind = "nil"
              /\ heap' = heap
              /\ pkt'.Raw = pkt.Raw /\ pkt'.PacketLen = pkt.PacketLen
              /\ pkt'.IpHdr.Modified = pkt.IpHdr.Modified
              /\ pkt'.NextHeader.Modified = pkt.NextHeader.Modified]_vars

\* C14 witness: SetSrcPort has failed on a packet of protocol 200 whose IP
\* header had been modified before.
C14_Witness ==
    /\ UnknownProtocol(heap, pkt)
    /\ wVal[Caller].op = "SetSrcPort" /\ wVal[Caller].err = "not implemented"
    /\ pkt.IpHdr.Modified


\* The IPv4 total-length field: bytes 2-3 of the packet, big-endian.
TotalLen(h, raw) == ByteAt(h, raw, 2) * 256 + ByteAt(h, raw, 3)

\* The TCP header length the header's bytes declare (data offset x 4).
TcpHeaderLen(h, hdr) == (ByteAt(h, hdr.Raw, 12) \div 16) * 4

\* PacketLen and the total-length field after UpdateTCPHeader, given the
\* payload length v set just before and the payload length old the packet had.
UpdatedLengths(v, old, tcpLen) ==
    IF v = old
    THEN pkt'.PacketLen = pkt.PacketLen
    ELSE /\ pkt'.PacketLen = pkt.hdrLen + tcpLen + v
         /\ pkt.ipVersion = 4 => TotalLen(heap', pkt'.Raw) = pkt'.Raw.len

\* C15: on a parsed TCP packet, SetPayload(v) followed by UpdateTCPHeader()
\* leaves PacketLen alone when len(v) is the old payload length, and otherwise
\* makes PacketLen = ipHeaderLen + tcpHeaderLen + len(v) and, for IPv4, the
\* total-length field of Raw equal to len(Raw); for pool-backed and for
\* caller-built packets and every length up to PacketBufferSize.
C15_PayloadLengths ==
    [][(/\ CallUpdateTCPHeader(Caller)
        /\ pkt.parsed /\ pkt.NextHeader.kind = "TCP"
        /\ wVal[Caller].op = "SetPayload") =>
         UpdatedLengths(pkt.NextHeader.Payload.len,
                        pkt.Raw.len - pkt.hdrLen - TcpHeaderLen(heap, pkt.NextHeader),
                        TcpHeaderLen(heap, pkt.NextHeader))]_vars


\* C16: PacketLen = len(Raw) in every state of the packet: as Recv or the
\* caller built it, after header setters, SetPayload, UpdateTCPHeader and
\* HelperCalcChecksum, and when Send hands Raw and PacketLen to the driver.
C16_PacketLenIsRawLen == pkt.PacketLen = pkt.Raw.len

\* C16 witness: Send is about to inject a packet whose length UpdateTCPHeader
\* has changed, after HelperCalcChecksum was called for it.
C16_Witness ==
    /\ wPc[Caller] = "inject"
    /\ wLog[Caller] = <<"calc">>
    /\ pkt.Raw.len = 44


\* A call of one of the five setters, and of one of the getters, of the TCP
\* header view.
TcpSetterCall ==
    \/ CallSetSrcPort(Caller)
    \/ CallSetDstPort(Caller)
    \/ CallSetSeqNum(Caller)
    \/ CallSetAckNum(Caller)
    \/ CallSetPayload(Caller)
TcpGetterCall ==
    \/ CallSrcPort(Caller)
    \/ CallDstPort(Caller)
    \/ CallSeqNum(Caller)

\* C17: the TCP header view's Modified flag is false right after the header
\* is parsed, true after any one setter call whatever value it writes, left
\* as it was by a getter, and once true stays true under every later getter
\* or setter call.
C17_ModifiedFlag ==
    [][LET old == wPkt[Caller].NextHeader
           new == wPkt'[Caller].NextHeader
       IN  /\ (new.kind = "TCP" /\ (CallParseHeaders(Caller) \/ old.kind # "TCP"))
                => (new.Modified <=> (TcpSetterCall /\ ~CallParseHeaders(Caller)))
           /\ (old.kind = "TCP" /\ TcpSetterCall) => (new.kind = "TCP" /\ new.Modified)
           /\ (old.kind = "TCP" /\ TcpGetterCall)
                => (new.kind = "TCP" /\ new.Modified = old.Modified)]_vars

\* C17 witness: SetAckNum has written the acknowledgement number the header
\* already held (the packet's bytes are those it was parsed from) and the
\* flag is raised.
C17_Witness ==
    /\ wVal[Caller].op = "SetAckNum"
    /\ pkt.NextHeader.kind = "TCP"
    /\ pkt.NextHeader.Modified
    /\ heap[1].data = Stored(PktTCP4)


\* The transport header view the claim names for a protocol number.
ViewKind(proto) ==
    CASE proto = 1 -> "ICMPv4"
      [] proto = 6 -> "TCP"
      [] proto = 17 -> "UDP"
      [] proto = 58 -> "ICMPv6"
      [] OTHER -> "nil"

\* What ParseHeaders selects for versions 4 and 6: version, header length,
\* next-protocol value, and the transport view and where it starts.
SelectsHeaders(h, raw, q) ==
    LET b0 == ByteAt(h, raw, 0)
        ver == b0 \div 16
    IN  /\ q.parsed
        /\ q.ipVersion = ver
        /\ (ver = 4) => (q.hdrLen = 4 * (b0 % 16) /\ q.nextHeaderType = ByteAt(h, raw, 9))
        /\ (ver = 6) => (q.hdrLen = 40 /\ q.nextHeaderType = ByteAt(h, raw, 6))
        /\ (ver \in {4, 6}) =>
             /\ q.NextHeader.kind = ViewKind(q.nextHeaderType)
             /\ (q.NextHeader.kind # "nil") =>
                  (q.NextHeader.Raw.arr = raw.arr /\ q.NextHeader.Raw.off = raw.off + q.hdrLen)

\* C19: ParseHeaders takes the version from the high nibble of byte 0, header
\* length and next protocol from where versions 4 and 6 keep them, builds the
\* transport view for protocols 1, 6, 17, 58 at the offset of the IP header
\* length and none otherwise; a buffer of another version is not parsed as
\* an IPv6 packet.
C19_ParseHeadersSelection ==
    [][CallParseHeaders(Caller) =>
         /\ SelectsHeaders(heap, pkt.Raw, wPkt'[Caller])
         /\ (ByteAt(heap, pkt.Raw, 0) \div 16 \notin {4, 6}) =>
              (wPkt'[Caller].IpHdr.kind # "IPv6" /\ wPkt'[Caller].hdrLen # IPv6HeaderLen)]_vars


\* The buffer is malformed: empty, shorter than the IP header length it
\* declares, shorter than the fixed transport header, or its TCP data offset
\* points past its end.
Malformed(h, raw) ==
    LET n   == raw.len
        ver == ByteAt(h, raw, 0) \div 16
        hl  == IF ver = 4 THEN 4 * (ByteAt(h, raw, 0) % 16) ELSE 40
        nh  == IF ver = 4 THEN ByteAt(h, raw, 9) ELSE ByteAt(h, raw, 6)
        fixed == CASE nh = TCP -> 20
                   [] nh \in {ICMPv4, UDP, ICMPv6} -> 8
                   [] OTHER -> 0
    IN  \/ n = 0
        \/ n < hl
        \/ n - hl < fixed
        \/ nh = TCP /\ 4 * (ByteAt(h, raw, hl + 12) \div 16) > n - hl

\* A call of ParseHeaders, or of an accessor on a packet not yet parsed.
ParsingCall ==
    \/ CallParseHeaders(Caller)
    \/ /\ ~pkt.parsed
       /\ \/ CallVerifyParsed(Caller)
          \/ CallNextHeaderType(Caller)
          \/ CallSrcIP(Caller)
          \/ CallDstIP(Caller)
          \/ CallSrcPort(Caller)
          \/ CallDstPort(Caller)
          \/ CallSetSrcIP(Caller)
          \/ CallSetDstIP(Caller)
          \/ CallSetSrcPort(Caller)
          \/ CallSetDstPort(Caller)

\* C18: ParseHeaders, and every accessor that triggers it, on a malformed Raw
\* buffer does not panic and returns a MalformedHeader error to the caller.
C18_MalformedInputIsAnError ==
    [][(ParsingCall /\ Malformed(heap, pkt.Raw)) =>
         (wPc'[Caller] # "panicked" /\ wVal'[Caller].err = "MalformedHeader")]_vars


\* Buffer a is accounted for: it is in the pool, or in the hands of a Recv
\* that has not returned yet, or referenced by a packet that Recv returned
\* (recvLoop's, queued, or held by a worker).
Accounted(a) ==
    \/ PoolCount(a) >= 1
    \/ loopBuf.arr = a
    \/ Refs(loopPkt, a)
    \/ \E i \in 1..Len(chan) : Refs(chan[i], a)
    \/ \E w \in Workers : Refs(wPkt[w], a)

\* C20: in every reachable state each buffer Recv took with GetBuffer is
\* referenced by a packet returned or enqueued, or is back in the pool; a
\* Recv whose driver call failed has not left its buffer outside the pool.
C20_RecvBuffersAccounted == \A a \in 1..Len(heap) : Accounted(a)


\* C21: every buffer available in the pool holds only zero bytes, after any
\* sequence of header setters, SetPayload, UpdateTCPHeader and Send on a
\* received packet, whether the payload became shorter, longer or neither.
C21_PooledBuffersZero ==
    \A i \in 1..Len(pool) : DOMAIN heap[pool[i].arr].data = {}


\* A write through the TCP header view is visible in Raw: after SetSeqNum the
\* sequence number read through the view is the one held at the offset of
\* the TCP header in the packet's Raw.
SeqVisibleInRaw(h, p) ==
    TCPSeqNum(h, p.NextHeader) = TCPSeqNum(h, [Raw |-> SubFrom(p.Raw, p.hdrLen)])

\* A write through the IP header view is visible in Raw: after an
\* UpdateTCPHeader that rebuilt Raw, bytes 2..3 of Raw hold the total length
\* it has set through the IPv4 header view.
TotalLenVisibleInRaw(h, p) == TotalLen(h, p.Raw) = p.Raw.len % 65536

\* C22: header views stay views into the packet's Raw: after any sequence of
\* SetPayload and UpdateTCPHeader calls (payload grown, shrunk or of the same
\* length; pool-backed or caller-constructed Raw), a write through the TCP
\* header view or the IP header view is visible at its offset in Raw.
C22_ViewsStayInRaw ==
    [][/\ (CallSetSeqNum(Caller) /\ pkt.parsed /\ pkt.NextHeader.kind = "TCP")
            => SeqVisibleInRaw(heap', wPkt'[Caller])
       /\ (/\ CallUpdateTCPHeader(Caller)
           /\ pkt.parsed /\ pkt.NextHeader.kind = "TCP" /\ pkt.IpHdr.kind = "IPv4"
           /\ pkt.NextHeader.Raw.len # pkt.Raw.len - pkt.hdrLen)
            => TotalLenVisibleInRaw(heap', wPkt'[Caller])]_vars

====
